---- MODULE Spec2Model ----
(***************************************************************************)
(* Model of scripts/extract_annotations.py: the vocabulary hierarchy and   *)
(* mapping tables loaded at import, the three annotation backends          *)
(* (gliner, mesh, t2t), and extract_annotations, which runs the backends   *)
(* on a ThreadPoolExecutor, joins their futures in declared order and      *)
(* deduplicates the joined list by (text, vocabulary_id).                  *)
(*                                                                         *)
(* A Python dict is a sequence of <<key, value>> pairs with distinct keys, *)
(* in insertion order: assigning to an existing key replaces its value in  *)
(* place, assigning to a new key appends.                                  *)
(***************************************************************************)
EXTENDS Integers, Sequences, FiniteSets, TLC

\* ------------------------------------------------------------------ bounds

\* Spans the three models return for one request text, all backends together.
MaxSpans == 2

\* Nodes of a categories.json document.
MaxNodes == 3

\* Rows of a mapping table (mappings.tsv, mesh_2_onvoc.tsv).
MaxRows == 3

\* ------------------------------------------------------- Python primitives

\* Python's None, as dict.get returns it for a missing key.
None == "<None>"

\* `not v` for a str-or-None value.
Falsy(v) == v = None \/ v = ""

RECURSIVE DictIndex(_, _, _)
\* Position of key k in dict d at or after position i, 0 when absent.
DictIndex(d, k, i) ==
    IF i > Len(d) THEN 0
    ELSE IF d[i][1] = k THEN i
    ELSE DictIndex(d, k, i + 1)

\* d.get(k, default)
DictGet(d, k, default) ==
    LET i == DictIndex(d, k, 1) IN IF i = 0 THEN default ELSE d[i][2]

\* Mutant of DictSet: d.setdefault(k, v), which keeps the value of an existing key.
DictSetDefault(d, k, v) ==
    IF DictIndex(d, k, 1) = 0 THEN Append(d, <<k, v>>) ELSE d

\* d[k] = v
DictSet(d, k, v) ==
    LET i == DictIndex(d, k, 1)
    IN  IF i = 0 THEN Append(d, <<k, v>>) ELSE [d EXCEPT ![i] = <<k, v>>]

\* set(d.keys())
DictKeys(d) == {d[i][1] : i \in 1..Len(d)}

\* All sequences over S of length at most n.
SeqsUpTo(S, n) == UNION {[1..k -> S] : k \in 0..n}

\* ------------------------------------------------------------ data files

\* data/categories.json in traversal order: every node with its depth
\* (a "subcategory" belongs to the last "category" before it, a "term" to
\* the last "subcategory" before it).
SampleCategories ==
    << [id |-> "C1",     label |-> "Imaging", level |-> "category"],
       [id |-> "C1.1",   label |-> "MRI",     level |-> "subcategory"],
       [id |-> "C1.1.1", label |-> "T1",      level |-> "term"],
       [id |-> "C2",     label |-> "Disease", level |-> "category"] >>

\* data/mappings.tsv: rows of (mesh_id, vocabulary_id). D1 occurs twice.
SampleMappingRows ==
    << [mesh_id |-> "D1", vocabulary_id |-> "C1"],
       [mesh_id |-> "D1", vocabulary_id |-> "C1.1"],
       [mesh_id |-> "D2", vocabulary_id |-> "C2"],
       [mesh_id |-> "D3", vocabulary_id |-> ""] >>

\* data/ontologies/mesh_2_onvoc.tsv: rows of (mesh_id, vocabulary_id).
SampleMesh2OnvocRows ==
    << [mesh_id |-> "MESH:D1", vocabulary_id |-> "C1.1"],
       [mesh_id |-> "MESH:D2", vocabulary_id |-> "C2"],
       [mesh_id |-> "MESH:D3", vocabulary_id |-> ""] >>

\* ------------------------------------------------------------------ state

VARIABLES
    cats,                   \* the parsed categories.json
    mapping_rows,           \* the rows of mappings.tsv
    mesh2onvoc_rows,        \* the rows of mesh_2_onvoc.tsv
    vocab_hierarchy,        \* module global: id -> (cat_id, sub_id, term_id)
    vocab_label_hierarchy,  \* module global: id -> (cat_label, sub_label, term_label)
    mesh_map,               \* module global: mesh CUI -> vocabulary id
    preds,                  \* what each backend's model returns for the text
    behaviour,              \* per backend: "ok", "raise" (an Exception) or "hang"
    pc,                     \* the main thread's position in extract_annotations
    future,                 \* per backend: its Future
    work_queue,             \* the executor's queue of submitted work items
    attempts,               \* per backend: calls of its function so far
    finish_order,           \* the backends in the order their futures finished
    raw_results,            \* extract_annotations' raw_results
    stderr,                 \* lines printed to sys.stderr
    result,                 \* what extract_annotations returned
    lpc,                    \* the position of the module's import-time code
    lookup,                 \* the last hierarchy lookup: the id and what it gave
    gl,                     \* the labels and label_to_id gliner built last
    resolved,               \* the last mapping lookup: the table, the id, what it gave
    gl_ann                  \* the last gliner run on one span: its label, its results

vars == << cats, mapping_rows, mesh2onvoc_rows, vocab_hierarchy,
           vocab_label_hierarchy, mesh_map, preds, behaviour, pc, future,
           work_queue, attempts, finish_order, raw_results, stderr, result,
           lpc, lookup, gl, resolved, gl_ann >>

data_vars == << cats, mapping_rows, mesh2onvoc_rows >>
global_vars == << vocab_hierarchy, vocab_label_hierarchy, mesh_map >>
input_vars == << preds, behaviour >>
request_vars == << pc, future, work_queue, attempts, finish_order, raw_results,
                   stderr, result >>
load_vars == << lpc, lookup, gl, resolved, gl_ann >>

\* ------------------------------------------------ load_vocabulary_hierarchy

RECURSIVE load_vocabulary_hierarchy_loop(_, _, _)
\* The nested loops of lines 41-55 over the document c from node i on; st holds
\* the two dicts built so far and the loop variables of the enclosing levels.
load_vocabulary_hierarchy_loop(c, i, st) ==
    IF i > Len(c) THEN st
    ELSE
      LET n == c[i] IN
      IF n.level = "category" THEN
        load_vocabulary_hierarchy_loop(c, i + 1,
          [st EXCEPT !.cat_id = n.id, !.cat_label = n.label,
                     !.vh  = DictSet(@, n.id, <<n.id, "", "">>),
                     !.vlh = DictSet(@, n.id, <<n.label, "", "">>)])
      ELSE IF n.level = "subcategory" THEN
        load_vocabulary_hierarchy_loop(c, i + 1,
          [st EXCEPT !.sub_id = n.id, !.sub_label = n.label,
                     !.vh  = DictSet(@, n.id, <<st.cat_id, n.id, "">>),
                     !.vlh = DictSet(@, n.id, <<st.cat_label, n.label, "">>)])
      ELSE
        load_vocabulary_hierarchy_loop(c, i + 1,
          [st EXCEPT !.vh  = DictSet(@, n.id, <<st.cat_id, st.sub_id, n.id>>),
                     !.vlh = DictSet(@, n.id,
                                     <<st.cat_label, st.sub_label, n.label>>)])

\* load_vocabulary_hierarchy(): <<vocab_hierarchy, vocab_label_hierarchy>>
load_vocabulary_hierarchy(c) ==
    LET st == load_vocabulary_hierarchy_loop(c, 1,
                [vh |-> <<>>, vlh |-> <<>>, cat_id |-> "", cat_label |-> "",
                 sub_id |-> "", sub_label |-> ""])
    IN  <<st.vh, st.vlh>>

\* ------------------------------------------------------------ load_mesh_map

\* Mutant of row_store: m.setdefault(row["mesh_id"], row["vocabulary_id"])
row_store_first(m, row) == DictSetDefault(m, row.mesh_id, row.vocabulary_id)

\* Lines 73 and 195: m[row["mesh_id"]] = row["vocabulary_id"]
row_store(m, row) == DictSet(m, row.mesh_id, row.vocabulary_id)

RECURSIVE load_rows(_, _, _)
\* Lines 69-73 and 192-195: for row in reader, in the file's row order
load_rows(rows, i, m) ==
    IF i > Len(rows) THEN m
    ELSE load_rows(rows, i + 1, row_store(m, rows[i]))

\* load_mesh_map()
load_mesh_map(rows) == load_rows(rows, 1, <<>>)

\* Lines 188-195: the meshid_to_vocab_id that extract_annotation_t2t builds
load_mesh_2_onvoc(rows) == load_rows(rows, 1, <<>>)

\* Line 139: vocab_id = mesh_map.get(mesh_cui)
mesh_resolve(mesh_cui) == DictGet(mesh_map, mesh_cui, None)

\* Line 199: vocab_id = meshid_to_vocab_id.get(mesh_id, "")
t2t_resolve(meshid_to_vocab_id, mesh_id) == DictGet(meshid_to_vocab_id, mesh_id, "")

\* ------------------------------------------------------- hierarchy lookup

\* Mutant of hierarchy_lookup: the read goes to the dict of ids.
hierarchy_lookup_ids(vocab_id) ==
    DictGet(vocab_hierarchy, vocab_id, << "", "", "" >>)

\* vocab_label_hierarchy.get(vocab_id, ("", "", "")), lines 104, 144 and 204
hierarchy_lookup(vocab_id) ==
    DictGet(vocab_label_hierarchy, vocab_id, << "", "", "" >>)

\* ------------------------------------------------- extract_annotation_gliner

\* Mutant of label_store: label_to_id.setdefault(lbl, vid)
label_store_first(label_to_id, lbl, vid) == DictSetDefault(label_to_id, lbl, vid)

\* Lines 87 and 89: label_to_id[cat_lbl] = vid, label_to_id[sub_lbl] = vid
label_store(label_to_id, lbl, vid) == DictSet(label_to_id, lbl, vid)

RECURSIVE gliner_label_loop(_, _, _)
\* Lines 85-89: for vid, (cat_lbl, sub_lbl, term_lbl) in vocab_label_hierarchy.items()
gliner_label_loop(vlh, i, st) ==
    IF i > Len(vlh) THEN st
    ELSE
      LET vid      == vlh[i][1]
          cat_lbl  == vlh[i][2][1]
          sub_lbl  == vlh[i][2][2]
          term_lbl == vlh[i][2][3]
      IN
      IF sub_lbl = "" /\ term_lbl = "" THEN
        gliner_label_loop(vlh, i + 1,
          [labels |-> Append(st.labels, cat_lbl),
           label_to_id |-> label_store(st.label_to_id, cat_lbl, vid)])
      ELSE IF sub_lbl # "" /\ term_lbl = "" THEN
        gliner_label_loop(vlh, i + 1,
          [labels |-> Append(st.labels, sub_lbl),
           label_to_id |-> label_store(st.label_to_id, sub_lbl, vid)])
      ELSE gliner_label_loop(vlh, i + 1, st)

\* Mutant of unique_labels: the label list is left as collected.
unique_labels_keep_all(labels, i, out) == labels

RECURSIVE unique_labels(_, _, _)
\* Lines 90-91: labels = [l for l in labels if not (l in seen or seen.add(l))]
unique_labels(labels, i, out) ==
    IF i > Len(labels) THEN out
    ELSE IF \E j \in 1..Len(out) : out[j] = labels[i]
         THEN unique_labels(labels, i + 1, out)
         ELSE unique_labels(labels, i + 1, Append(out, labels[i]))

\* Lines 84-91: the label list handed to the model and the label -> id dict
\* (st: the two as the loop of lines 85-89 leaves them).
gliner_labels(vlh) ==
    CHOOSE r \in { [labels |-> unique_labels(st.labels, 1, <<>>),
                    label_to_id |-> st.label_to_id] :
                     st \in {gliner_label_loop(vlh, 1, [labels |-> <<>>,
                                                        label_to_id |-> <<>>])} } :
      TRUE

\* Line 100: `if not vid: continue`
gliner_skips(vid) == Falsy(vid)

RECURSIVE gliner_results_loop(_, _, _, _)
\* Lines 96-117: for ent in ents
gliner_results_loop(ents, label_to_id, i, results) ==
    IF i > Len(ents) THEN results
    ELSE
      LET ent == ents[i]
          vid == DictGet(label_to_id, ent.label, None)
      IN
      IF gliner_skips(vid) THEN gliner_results_loop(ents, label_to_id, i + 1, results)
      ELSE
        LET lbls == hierarchy_lookup(vid) IN
        gliner_results_loop(ents, label_to_id, i + 1,
          Append(results,
            [text |-> ent.text, vocabulary_id |-> vid,
             category |-> lbls[1], subcategory |-> lbls[2], term |-> lbls[3],
             score |-> ent.score, keyword |-> FALSE, inclusion |-> FALSE,
             exclusion |-> FALSE, mapper |-> "gliner"]))

\* extract_annotation_gliner(text), ents being what model.predict_entities returns
extract_annotation_gliner(ents) ==
    CHOOSE results \in
        { gliner_results_loop(ents, label_to_id, 1, <<>>) :
            label_to_id \in {gliner_labels(vocab_label_hierarchy).label_to_id} } :
      TRUE

\* --------------------------------------------------- extract_annotation_mesh

\* Mutant of mesh_skips: `if vocab_id is None: continue`
mesh_skips_none_only(vocab_id) == vocab_id = None

\* Line 140: `if not vocab_id: continue`
mesh_skips(vocab_id) == Falsy(vocab_id)

RECURSIVE mesh_results_loop(_, _, _)
\* Lines 135-158: for ent in doc.ents
mesh_results_loop(ents, i, results) ==
    IF i > Len(ents) THEN results
    ELSE
      LET ent == ents[i] IN
      IF ent.kb_ents = <<>> THEN mesh_results_loop(ents, i + 1, results)
      ELSE
        LET mesh_cui == ent.kb_ents[1][1]
            score    == ent.kb_ents[1][2]
            vocab_id == mesh_resolve(mesh_cui)
        IN
        IF mesh_skips(vocab_id) THEN mesh_results_loop(ents, i + 1, results)
        ELSE
          LET lbls == hierarchy_lookup(vocab_id) IN
          mesh_results_loop(ents, i + 1,
            Append(results,
              [text |-> ent.text, mesh_id |-> mesh_cui, vocabulary_id |-> vocab_id,
               category |-> lbls[1], subcategory |-> lbls[2], term |-> lbls[3],
               score |-> score, keyword |-> FALSE, inclusion |-> FALSE,
               exclusion |-> FALSE, mapper |-> "mesh"]))

\* extract_annotation_mesh(text), ents being doc.ents
extract_annotation_mesh(ents) == mesh_results_loop(ents, 1, <<>>)

\* ---------------------------------------------------- extract_annotation_t2t

\* Line 200: `if not vocab_id: continue`
t2t_skips(vocab_id) == Falsy(vocab_id)

RECURSIVE t2t_results_loop(_, _, _, _)
\* Lines 197-216: for _, row in df.iterrows()
t2t_results_loop(df, meshid_to_vocab_id, i, results) ==
    IF i > Len(df) THEN results
    ELSE
      LET row      == df[i]
          mesh_id  == row.curie
          vocab_id == t2t_resolve(meshid_to_vocab_id, mesh_id)
      IN
      IF t2t_skips(vocab_id)
      THEN t2t_results_loop(df, meshid_to_vocab_id, i + 1, results)
      ELSE
        LET lbls == hierarchy_lookup(vocab_id) IN
        t2t_results_loop(df, meshid_to_vocab_id, i + 1,
          Append(results,
            [text |-> row.source_term, vocabulary_id |-> vocab_id,
             category |-> lbls[1], subcategory |-> lbls[2], term |-> lbls[3],
             score |-> row.score, keyword |-> FALSE, inclusion |-> FALSE,
             exclusion |-> FALSE, mapper |-> "t2t"]))

\* extract_annotation_t2t(text), df being what map_entities_to_terms returns;
\* the CURIE table is read from mesh_2_onvoc.tsv on every call (lines 188-195).
extract_annotation_t2t(df) ==
    CHOOSE results \in
        { t2t_results_loop(df, meshid_to_vocab_id, 1, <<>>) :
            meshid_to_vocab_id \in {load_mesh_2_onvoc(mesh2onvoc_rows)} } :
      TRUE

\* -------------------------------------------------------- extract_annotations

\* The backends in the order extract_annotations submits and joins them.
Backends == << "gliner", "mesh", "t2t" >>

BackendSet == {Backends[i] : i \in 1..Len(Backends)}

\* ThreadPoolExecutor(max_workers=3)
max_workers == 3

\* The function a backend's work item calls, on what its model returns.
run_backend(b, p) ==
    CASE b = "gliner" -> extract_annotation_gliner(p)
      [] b = "mesh"   -> extract_annotation_mesh(p)
      [] b = "t2t"    -> extract_annotation_t2t(p)

\* Mutant of dict_after_get: d.setdefault(k) in place of d.get(k)
dict_after_setdefault(d, k) == DictSetDefault(d, k, None)

\* The dict d once d.get(k) or d.get(k, default) has returned: get inserts
\* nothing (lines 104, 139, 144, 204).
dict_after_get(d, k) == d

RECURSIVE mesh_map_after(_, _, _)
\* mesh_map once extract_annotation_mesh has read it for every entity that has
\* a candidate (lines 135-139).
mesh_map_after(ents, i, m) ==
    IF i > Len(ents) THEN m
    ELSE IF ents[i].kb_ents = <<>> THEN mesh_map_after(ents, i + 1, m)
    ELSE mesh_map_after(ents, i + 1, dict_after_get(m, ents[i].kb_ents[1][1]))

RECURSIVE hierarchy_after(_, _, _)
\* vocab_label_hierarchy once a backend has read it for the vocabulary id of
\* every annotation it built (lines 104, 144, 204).
hierarchy_after(results, i, vlh) ==
    IF i > Len(results) THEN vlh
    ELSE hierarchy_after(results, i + 1, dict_after_get(vlh, results[i].vocabulary_id))

\* The module globals once backend b has run on what its model returned and
\* built the list results.
globals_after_run(b, p, results) ==
    << vocab_hierarchy,
       hierarchy_after(results, 1, vocab_label_hierarchy),
       IF b = "mesh" THEN mesh_map_after(p, 1, mesh_map) ELSE mesh_map >>

\* The text before ": {e}" of the line an except clause prints.
failure_line(b) ==
    CASE b = "gliner" -> "GLiNER extraction failed"
      [] b = "mesh"   -> "MeSH extraction failed"
      [] b = "t2t"    -> "T2T extraction failed"

\* Mutant of dedup_key: key = ann["text"]
dedup_key_text_only(ann) == << ann.text >>

\* Line 249: key = (ann["text"], ann["vocabulary_id"])
dedup_key(ann) == << ann.text, ann.vocabulary_id >>

RECURSIVE dedup_loop_overwrite(_, _, _, _)
\* Mutant of dedup_loop: a later duplicate replaces the annotation kept for
\* its key.
dedup_loop_overwrite(raw, i, seen, deduped) ==
    IF i > Len(raw) THEN deduped
    ELSE
      LET key == dedup_key(raw[i]) IN
      IF key \notin seen
      THEN dedup_loop_overwrite(raw, i + 1, seen \cup {key}, Append(deduped, raw[i]))
      ELSE dedup_loop_overwrite(raw, i + 1, seen,
             [k \in 1..Len(deduped) |->
                IF dedup_key(deduped[k]) = key THEN raw[i] ELSE deduped[k]])

RECURSIVE dedup_loop(_, _, _, _)
\* Lines 248-252: for ann in raw_results
dedup_loop(raw, i, seen, deduped) ==
    IF i > Len(raw) THEN deduped
    ELSE
      LET key == dedup_key(raw[i]) IN
      IF key \notin seen
      THEN dedup_loop(raw, i + 1, seen \cup {key}, Append(deduped, raw[i]))
      ELSE dedup_loop(raw, i + 1, seen, deduped)

\* Lines 246-253
dedup(raw) == dedup_loop(raw, 1, {}, <<>>)

\* Mutant of submit: the work item is queued twice.
submit_twice(q, b) == q \o << b, b >>

\* executor.submit(fn, text): the items queued once this one is.
submit(q, b) == Append(q, b)

\* Mutant of dequeue: the work item is read but left in the queue.
dequeue_keep(q) == q

\* A worker's work_queue.get(): the items left once the head is taken.
dequeue(q) == Tail(q)

\* Mutant of result_ready: the wait gives up on a future that is not finished.
result_ready_timeout(b) == TRUE

\* future.result() returns or raises once the future is finished, not before.
result_ready(b) == future[b].state = "FINISHED"

\* Mutant of start_ready: ThreadPoolExecutor(max_workers=1)
start_ready_serial(b) ==
    /\ work_queue # << >>
    /\ Head(work_queue) = b
    /\ \A c \in BackendSet : future[c].state # "RUNNING"

\* A worker thread is free and b is the oldest queued work item.
start_ready(b) ==
    /\ work_queue # << >>
    /\ Head(work_queue) = b
    /\ Cardinality({c \in BackendSet : future[c].state = "RUNNING"}) < max_workers

\* b's function is running and comes to an end (it returns or raises).
finish_ready(b) ==
    /\ future[b].state = "RUNNING"
    /\ behaviour[b] # "hang"

\* shutdown(wait=True) returns once every worker thread has ended.
workers_idle ==
    /\ work_queue = << >>
    /\ \A b \in BackendSet : future[b].state # "RUNNING"

\* Mutant of after_join: the with block is left after the first join.
after_join_first(i) == [op |-> "shutdown", i |-> 0]

\* The position after the join of backend i.
after_join(i) ==
    IF i < Len(Backends) THEN [op |-> "join", i |-> i + 1]
    ELSE [op |-> "shutdown", i |-> 0]

\* Mutant of join_target: the futures are taken as they complete.
join_target_completed(i) ==
    IF i <= Len(finish_order) THEN finish_order[i] ELSE Backends[i]

\* The future the i-th try block waits on: gliner_future, mesh_future, t2t_future.
join_target(i) == Backends[i]

\* Mutant of on_exception: no except clause, the exception leaves the function.
on_exception_propagate(i) == [op |-> "raised", i |-> 0]

\* Where an exception raised by future.result() leaves the main thread: the
\* except clause catches it and control falls through to the next statement.
on_exception(i) == after_join(i)

\* Mutant of report_failure: `except Exception: pass`
report_failure_silent(err, b) == err

\* print(f"<b> extraction failed: {e}", file=sys.stderr)
report_failure(err, b) == Append(err, failure_line(b))

\* Lines 225-227: executor.submit(extract_annotation_<b>, text)
Submit ==
    /\ pc.op = "submit"
    /\ LET b == Backends[pc.i] IN
         /\ future' = [future EXCEPT ![b].state = "PENDING"]
         /\ work_queue' = submit(work_queue, b)
    /\ pc' = IF pc.i < Len(Backends) THEN [pc EXCEPT !.i = pc.i + 1]
             ELSE [op |-> "join", i |-> 1]
    /\ UNCHANGED << load_vars, data_vars, global_vars, input_vars, attempts, finish_order,
                    raw_results, stderr, result >>

\* A free worker thread takes the oldest queued work item and calls its function.
Start(b) ==
    /\ start_ready(b)
    /\ work_queue' = dequeue(work_queue)
    /\ future' = [future EXCEPT ![b].state = "RUNNING"]
    /\ attempts' = [attempts EXCEPT ![b] = @ + 1]
    /\ UNCHANGED << load_vars, data_vars, global_vars, input_vars, pc, finish_order,
                    raw_results, stderr, result >>

\* The backend's function returns its list or raises; a hanging one does neither.
Finish(b) ==
    /\ finish_ready(b)
    /\ IF behaviour[b] = "raise"
       THEN /\ future' = [future EXCEPT ![b] =
                            [state |-> "FINISHED", result |-> << >>,
                             exception |-> "Exception"]]
            /\ UNCHANGED global_vars
       ELSE \E results \in {run_backend(b, preds[b])} :
            \E g \in {globals_after_run(b, preds[b], results)} :
              /\ future' = [future EXCEPT ![b] =
                              [state |-> "FINISHED", result |-> results,
                               exception |-> None]]
              /\ vocab_hierarchy' = g[1]
              /\ vocab_label_hierarchy' = g[2]
              /\ mesh_map' = g[3]
    /\ finish_order' = Append(finish_order, b)
    /\ UNCHANGED << load_vars, data_vars, input_vars, pc, work_queue, attempts,
                    raw_results, stderr, result >>

\* Lines 231-244: try: raw_results.extend(<b>_future.result())
\*                except Exception as e: print(..., file=sys.stderr)
Join ==
    /\ pc.op = "join"
    /\ LET b == join_target(pc.i) IN
         /\ result_ready(b)
         /\ IF future[b].exception # None
            THEN /\ stderr' = report_failure(stderr, b)
                 /\ pc' = on_exception(pc.i)
                 /\ UNCHANGED raw_results
            ELSE /\ raw_results' = raw_results \o future[b].result
                 /\ pc' = after_join(pc.i)
                 /\ UNCHANGED stderr
    /\ UNCHANGED << load_vars, data_vars, global_vars, input_vars, future, work_queue,
                    attempts, finish_order, result >>

\* Leaving the with block: executor.shutdown(wait=True) joins the workers.
Shutdown ==
    /\ pc.op = "shutdown"
    /\ workers_idle
    /\ pc' = [op |-> "dedup", i |-> 0]
    /\ UNCHANGED << load_vars, data_vars, global_vars, input_vars, future, work_queue,
                    attempts, finish_order, raw_results, stderr, result >>

\* Lines 246-253: deduplicate raw_results and return.
Dedup ==
    /\ pc.op = "dedup"
    /\ result' = dedup(raw_results)
    /\ pc' = [op |-> "done", i |-> 0]
    /\ UNCHANGED << load_vars, data_vars, global_vars, input_vars, future, work_queue,
                    attempts, finish_order, raw_results, stderr >>

\* ------------------------------------------------------ what the models return

\* Span texts.
Texts == {"a", "b"}

\* What a model may attach to a span: a label (gliner), the CUI of the first
\* kb_ents candidate, "" for no candidate (mesh), a mapped term CURIE (t2t).
Idents(b) ==
    CASE b = "gliner" -> {"Imaging", "MRI", "Disease", "Other"}
      [] b = "mesh"   -> {"D1", "D2", "D3", "D9", ""}
      [] b = "t2t"    -> {"MESH:D1", "MESH:D2", "MESH:D3", "MESH:D9"}

\* The i-th span of a model's output; its score is its position, so that two
\* spans of one backend are never the same record.
model_span(b, text, ident, i) ==
    CASE b = "gliner" -> [text |-> text, label |-> ident, score |-> i]
      [] b = "mesh"   -> [text |-> text,
                          kb_ents |-> IF ident = "" THEN << >>
                                      ELSE << << ident, i >> >>]
      [] b = "t2t"    -> [source_term |-> text, curie |-> ident, score |-> i]

\* The outputs of backend b's model with n spans.
ModelOutputs(b, n) ==
    { [i \in 1..n |-> model_span(b, s[i][1], s[i][2], i)] :
        s \in [1..n -> Texts \X Idents(b)] }

\* No lookup was made yet; gliner built no labels yet.
NoLookup == [done |-> FALSE, id |-> "", labels |-> << >>]
NoLabels == [built |-> FALSE, labels |-> << >>, label_to_id |-> << >>]
NoResolve == [done |-> FALSE, table |-> "", id |-> "", vocab_id |-> ""]
NoRun == [done |-> FALSE, label |-> "", results |-> << >>]

InitRequest ==
    /\ pc = [op |-> "submit", i |-> 1]
    /\ future = [b \in BackendSet |->
                   [state |-> "NONE", result |-> << >>, exception |-> None]]
    /\ work_queue = << >>
    /\ attempts = [b \in BackendSet |-> 0]
    /\ finish_order = << >>
    /\ raw_results = << >>
    /\ stderr = << >>
    /\ result = << >>

Init ==
    /\ cats = SampleCategories
    /\ mapping_rows = SampleMappingRows
    /\ mesh2onvoc_rows = SampleMesh2OnvocRows
    /\ vocab_hierarchy = load_vocabulary_hierarchy(cats)[1]
    /\ vocab_label_hierarchy = load_vocabulary_hierarchy(cats)[2]
    /\ mesh_map = load_mesh_map(mapping_rows)
    /\ behaviour \in [BackendSet -> {"ok", "raise", "hang"}]
    /\ \E n \in [BackendSet -> 0..MaxSpans] :
         /\ n["gliner"] + n["mesh"] + n["t2t"] <= MaxSpans
         /\ \A b \in BackendSet : behaviour[b] # "ok" => n[b] = 0
         /\ \E g \in ModelOutputs("gliner", n["gliner"]),
               m \in ModelOutputs("mesh", n["mesh"]),
               t \in ModelOutputs("t2t", n["t2t"]) :
              preds = [b \in BackendSet |->
                         CASE b = "gliner" -> g [] b = "mesh" -> m [] b = "t2t" -> t]
    /\ InitRequest
    /\ lpc = "loaded"
    /\ lookup = NoLookup
    /\ gl = NoLabels
    /\ resolved = NoResolve
    /\ gl_ann = NoRun

Next ==
    \/ Submit
    \/ \E b \in BackendSet : Start(b)
    \/ \E b \in BackendSet : Finish(b)
    \/ Join
    \/ Shutdown
    \/ Dedup

Spec == Init /\ [][Next]_vars

\* ------------------------------------------------------------ scheduling
\* extract_annotations on one request whose models return one span each, under
\* a scheduler that lets every thread that can take a step take one: the main
\* thread (Submit, Join, Shutdown, Dedup) and each worker thread (Start,
\* Finish). A backend that hangs has no Finish step to be scheduled.

SampleOutputs(b) ==
    CASE b = "gliner" -> << model_span("gliner", "a", "MRI", 1) >>
      [] b = "mesh"   -> << model_span("mesh", "a", "D1", 1) >>
      [] b = "t2t"    -> << model_span("t2t", "b", "MESH:D2", 1) >>

InitFair ==
    /\ cats = SampleCategories
    /\ mapping_rows = SampleMappingRows
    /\ mesh2onvoc_rows = SampleMesh2OnvocRows
    /\ vocab_hierarchy = load_vocabulary_hierarchy(cats)[1]
    /\ vocab_label_hierarchy = load_vocabulary_hierarchy(cats)[2]
    /\ mesh_map = load_mesh_map(mapping_rows)
    /\ behaviour \in [BackendSet -> {"ok", "raise", "hang"}]
    /\ preds = [b \in BackendSet |->
                  IF behaviour[b] = "ok" THEN SampleOutputs(b) ELSE << >>]
    /\ InitRequest
    /\ lpc = "loaded"
    /\ lookup = NoLookup
    /\ gl = NoLabels
    /\ resolved = NoResolve
    /\ gl_ann = NoRun

Fairness ==
    /\ WF_vars(Submit) /\ WF_vars(Join) /\ WF_vars(Shutdown) /\ WF_vars(Dedup)
    /\ \A b \in BackendSet : WF_vars(Start(b)) /\ WF_vars(Finish(b))

FairSpec == InitFair /\ [][Next]_vars /\ Fairness

\* ------------------------------------------------------------ import time
\* The module's top-level code on documents drawn from bounded sets, then the
\* reads the backends make of what it built.

NodeIds == {"A", "B", "C"}

NodeLabels == {"x", "y", ""}

Levels == {"category", "subcategory", "term"}

\* A three-level document in traversal order: it starts with a category, and a
\* term follows a subcategory or a sibling term.
WellNested(c) ==
    /\ Len(c) > 0 => c[1].level = "category"
    /\ \A i \in 2..Len(c) :
         c[i].level = "term" => c[i - 1].level \in {"subcategory", "term"}

Documents ==
    { c \in SeqsUpTo([id : NodeIds, label : NodeLabels, level : Levels], MaxNodes) :
        WellNested(c) }

\* Line 60: vocab_hierarchy, vocab_label_hierarchy = load_vocabulary_hierarchy()
LoadVocabularyHierarchy ==
    /\ lpc = "import_hierarchy"
    /\ vocab_hierarchy' = load_vocabulary_hierarchy(cats)[1]
    /\ vocab_label_hierarchy' = load_vocabulary_hierarchy(cats)[2]
    /\ lpc' = "import_mesh_map"
    /\ UNCHANGED << data_vars, input_vars, request_vars, mesh_map, lookup, gl,
                    resolved, gl_ann >>

\* Line 77: mesh_map = load_mesh_map()
LoadMeshMap ==
    /\ lpc = "import_mesh_map"
    /\ mesh_map' = load_mesh_map(mapping_rows)
    /\ lpc' = "loaded"
    /\ UNCHANGED << data_vars, input_vars, request_vars, vocab_hierarchy,
                    vocab_label_hierarchy, lookup, gl, resolved, gl_ann >>

\* A backend's read of the hierarchy for a vocabulary id.
Lookup(id) ==
    /\ lpc = "loaded"
    /\ lookup' = [done |-> TRUE, id |-> id, labels |-> hierarchy_lookup(id)]
    /\ UNCHANGED << data_vars, input_vars, request_vars, global_vars, lpc, gl,
                    resolved, gl_ann >>

\* Lines 84-91 of extract_annotation_gliner.
GlinerLabels ==
    /\ lpc = "loaded"
    /\ gl' = [built |-> TRUE] @@ gliner_labels(vocab_label_hierarchy)
    /\ UNCHANGED << data_vars, input_vars, request_vars, global_vars, lpc, lookup,
                    resolved, gl_ann >>

InitLoad ==
    /\ cats \in Documents
    /\ mapping_rows = SampleMappingRows
    /\ mesh2onvoc_rows = SampleMesh2OnvocRows
    /\ vocab_hierarchy = << >>
    /\ vocab_label_hierarchy = << >>
    /\ mesh_map = << >>
    /\ preds = [b \in BackendSet |-> << >>]
    /\ behaviour = [b \in BackendSet |-> "ok"]
    /\ InitRequest
    /\ lpc = "import_hierarchy"
    /\ lookup = NoLookup
    /\ gl = NoLabels
    /\ resolved = NoResolve
    /\ gl_ann = NoRun

NextLoad ==
    \/ LoadVocabularyHierarchy
    \/ LoadMeshMap
    \/ \E id \in NodeIds \cup {"Z"} : Lookup(id)
    \/ GlinerLabels

SpecLoad == InitLoad /\ [][NextLoad]_vars

\* ------------------------------------------------------------ gliner runs
\* extract_annotation_gliner on the hierarchy of a document drawn from a
\* bounded set, its model returning one span with a given label.

\* Lines 79-118 with model.predict_entities returning one entity.
GlinerExtract(label) ==
    /\ lpc = "loaded"
    /\ gl_ann' = [done |-> TRUE, label |-> label,
                  results |-> extract_annotation_gliner(
                                << [text |-> "a", label |-> label, score |-> 1] >>)]
    /\ UNCHANGED << data_vars, input_vars, request_vars, global_vars, lpc, lookup,
                    gl, resolved >>

NextGliner ==
    \/ LoadVocabularyHierarchy
    \/ LoadMeshMap
    \/ \E label \in NodeLabels \cup {"z"} : GlinerExtract(label)

SpecGliner == InitLoad /\ [][NextGliner]_vars

\* ---------------------------------------------------------- mapping tables
\* The two mapping tables on rows drawn from bounded sets: mappings.tsv is
\* loaded at import, mesh_2_onvoc.tsv by each t2t run, and the backends then
\* resolve external ids against what was loaded.

ExternalIds == {"E1", "E2"}

VocabularyIds == {"V1", "V2", ""}

Tables == SeqsUpTo([mesh_id : ExternalIds, vocabulary_id : VocabularyIds], MaxRows)

\* The mesh backend's lookup of a CUI in mesh_map (line 139).
ResolveCui(id) ==
    /\ lpc = "loaded"
    /\ resolved' = [done |-> TRUE, table |-> "mappings", id |-> id,
                    vocab_id |-> mesh_resolve(id)]
    /\ UNCHANGED << data_vars, input_vars, request_vars, global_vars, lpc, lookup,
                    gl, gl_ann >>

\* The t2t backend's load of its table and lookup of a CURIE (lines 188-199).
ResolveCurie(id) ==
    /\ lpc = "loaded"
    /\ resolved' = [done |-> TRUE, table |-> "mesh_2_onvoc", id |-> id,
                    vocab_id |-> t2t_resolve(load_mesh_2_onvoc(mesh2onvoc_rows), id)]
    /\ UNCHANGED << data_vars, input_vars, request_vars, global_vars, lpc, lookup,
                    gl, gl_ann >>

InitMap ==
    /\ cats = SampleCategories
    /\ \E t \in Tables :
         \/ mapping_rows = t /\ mesh2onvoc_rows = SampleMesh2OnvocRows
         \/ mapping_rows = SampleMappingRows /\ mesh2onvoc_rows = t
    /\ vocab_hierarchy = load_vocabulary_hierarchy(cats)[1]
    /\ vocab_label_hierarchy = load_vocabulary_hierarchy(cats)[2]
    /\ mesh_map = << >>
    /\ preds = [b \in BackendSet |-> << >>]
    /\ behaviour = [b \in BackendSet |-> "ok"]
    /\ InitRequest
    /\ lpc = "import_mesh_map"
    /\ lookup = NoLookup
    /\ gl = NoLabels
    /\ resolved = NoResolve
    /\ gl_ann = NoRun

NextMap ==
    \/ LoadMeshMap
    \/ \E id \in ExternalIds \cup {"E3"} : ResolveCui(id)
    \/ \E id \in ExternalIds \cup {"E3"} : ResolveCurie(id)

SpecMap == InitMap /\ [][NextMap]_vars

\* ================================================================== claims
\* Vocabulary of the properties below.

\* The dedup key of the specification: (text, vocabularyId).
KeyOf(ann) == << ann.text, ann.vocabulary_id >>

RECURSIVE Concat(_)
\* The lists of a sequence of lists, joined in order.
Concat(lists) ==
    IF lists = << >> THEN << >> ELSE Head(lists) \o Concat(Tail(lists))

\* What backend b returns for the request: fixed by what its model returns.
Outputs(b) == IF behaviour[b] = "ok" THEN run_backend(b, preds[b]) ELSE << >>

\* Backends whose join statement the main thread has passed.
JoinedCount ==
    CASE pc.op = "submit" -> 0
      [] pc.op = "join"   -> pc.i - 1
      [] OTHER            -> Len(Backends)

Joined(b) == \E i \in 1..JoinedCount : Backends[i] = b

Returned == pc.op = "done"

\* Some thread can take a step: the enabling conditions of Submit, Start,
\* Finish, Join, Shutdown and Dedup.
CanStep ==
    \/ pc.op \in {"submit", "dedup"}
    \/ \E b \in BackendSet : start_ready(b) \/ finish_ready(b)
    \/ pc.op = "join" /\ result_ready(join_target(pc.i))
    \/ pc.op = "shutdown" /\ workers_idle

\* How often x occurs in sequence q.
Count(q, x) == Cardinality({i \in 1..Len(q) : q[i] = x})

Range(q) == {q[i] : i \in 1..Len(q)}

\* The per-backend result lists as the futures hold them, in declared order.
ResultLists == [i \in 1..Len(Backends) |-> future[Backends[i]].result]

\* Position i is the earliest occurrence of its key in scan.
Earliest(scan, i) == \A j \in 1..(i - 1) : KeyOf(scan[j]) # KeyOf(scan[i])

\* C1: merge keeps exactly one annotation per distinct (text, vocabularyId) of
\* the per-backend lists, namely the earliest occurrence when the lists are
\* scanned in declared order and then in within-list order; every later
\* occurrence of a key is absent from the output.
C1_MergeKeepsEarliest ==
    Returned =>
      LET scan == Concat(ResultLists) IN
        /\ \A i \in 1..Len(scan) :
             IF Earliest(scan, i)
             THEN /\ Count(result, scan[i]) = 1
                  /\ Cardinality({r \in 1..Len(result) :
                                    KeyOf(result[r]) = KeyOf(scan[i])}) = 1
             ELSE scan[i] \notin Range(result)
        /\ Range(result) \subseteq Range(scan)

\* C1 witness: a returned request in which two backends produced the same key.
C1_Witness ==
    /\ Returned
    /\ LET scan == Concat(ResultLists) IN
         \E i, j \in 1..Len(scan) :
           /\ i < j
           /\ KeyOf(scan[i]) = KeyOf(scan[j])
           /\ scan[i].mapper # scan[j].mapper
           /\ scan[i] \in Range(result)

\* The backends that succeed, in declared order.
SucceededBackends == SelectSeq(Backends, LAMBDA b : behaviour[b] = "ok")

\* C2: whatever subset of the backends raises, extract_annotations returns
\* normally and its result is merge applied to the lists of the backends that
\* succeeded, in declared order: a failed backend contributes nothing and never
\* makes the call fail.
C2_PartialFailure ==
    /\ pc.op \in {"submit", "join", "shutdown", "dedup", "done"}
    /\ (\A b \in BackendSet : behaviour[b] # "hang") => (Returned \/ CanStep)
    /\ Returned =>
         result = dedup(Concat([i \in 1..Len(SucceededBackends) |->
                                  run_backend(SucceededBackends[i],
                                              preds[SucceededBackends[i]])]))

\* C2 witness: mesh raised, gliner and t2t succeeded with annotations, and the
\* call returned them.
C2_Witness ==
    /\ Returned
    /\ behaviour = [b \in BackendSet |-> IF b = "mesh" THEN "raise" ELSE "ok"]
    /\ future["gliner"].result # << >>
    /\ future["t2t"].result # << >>
    /\ Len(result) = 2

RECURSIVE DeclaredJoin(_)
\* The outputs of the first k backends in declared order, joined.
DeclaredJoin(k) ==
    IF k = 0 THEN << >> ELSE DeclaredJoin(k - 1) \o Outputs(Backends[k])

\* C3: the list handed to the deduplication is the join of the backend outputs
\* in declared order whatever the order in which the backends completed, so the
\* result depends on the backend outputs alone and not on the schedule.
C3_DeclaredOrderJoin ==
    /\ raw_results = DeclaredJoin(JoinedCount)
    /\ Returned => result = dedup(DeclaredJoin(Len(Backends)))

\* C3 witness: t2t completed first and gliner last, both with annotations, and
\* the call returned gliner's before t2t's.
C3_Witness ==
    /\ Returned
    /\ finish_order = << "t2t", "mesh", "gliner" >>
    /\ Len(result) = 2
    /\ result[1].mapper = "gliner"
    /\ result[2].mapper = "t2t"

\* C4 as claimed: extract_annotations gives up waiting on a backend that is
\* still pending and returns, so that it returns even if a backend never
\* terminates: the call is never left with no step to take short of returning.
C4_ReturnsDespiteHang == Returned \/ CanStep

\* C4 as amended: there is no timeout. The main thread passes a join only once
\* that backend's future is finished, a diagnostic line is printed only for a
\* backend that raised, and with a backend that never terminates the call never
\* returns.
C4_WaitsForEveryBackend ==
    /\ \A b \in BackendSet : Joined(b) => future[b].state = "FINISHED"
    /\ \A b \in BackendSet :
         Count(stderr, failure_line(b)) > 0 => future[b].exception # None
    /\ (\E b \in BackendSet : behaviour[b] = "hang") => ~Returned

\* C4 witness: the main thread waits on mesh, which hangs, while gliner and t2t
\* have finished, and nothing can happen any more.
C4_Witness ==
    /\ pc = [op |-> "join", i |-> 2]
    /\ behaviour["mesh"] = "hang"
    /\ future["mesh"].state = "RUNNING"
    /\ future["gliner"].state = "FINISHED"
    /\ future["t2t"].state = "FINISHED"
    /\ future["t2t"].result # << >>
    /\ ~CanStep

C6_OneAttemptPerBackend ==
    /\ \A b \in BackendSet :
         /\ attempts[b] <= 1
         /\ Count(work_queue, b) + attempts[b] <= 1
         /\ attempts[b] = 1 <=> future[b].state \in {"RUNNING", "FINISHED"}
         /\ Count(work_queue, b) = 1 <=> future[b].state = "PENDING"
    /\ pc.op # "submit" => \A b \in BackendSet : future[b].state # "NONE"
    /\ pc.op \in {"shutdown", "dedup", "done"} => \A b \in BackendSet : attempts[b] = 1

\* C6 witness: the call returned after gliner failed, and each backend was
\* started once.
C6_Witness ==
    /\ Returned
    /\ behaviour["gliner"] = "raise"
    /\ \A b \in BackendSet : attempts[b] = 1

\* ------------------------------------------------- claims on the hierarchy

\* The positions of document c whose node has this id.
NodesWithId(c, id) == {i \in 1..Len(c) : c[i].id = id}

\* No two nodes of c share an id.
UniqueIds(c) == \A i, j \in 1..Len(c) : c[i].id = c[j].id => i = j

\* The last position in I (a non-empty set of positions).
Last(I) == CHOOSE i \in I : \A j \in I : j <= i

\* The category a nested node i belongs to, and the subcategory of a term.
CategoryOf(c, i) == Last({j \in 1..i : c[j].level = "category"})
SubcategoryOf(c, i) == Last({j \in 1..i : c[j].level = "subcategory"})

\* (categoryLabel, subcategoryLabel, termLabel) of node i and its ancestors.
LabelPath(c, i) ==
    CASE c[i].level = "category"    -> << c[i].label, "", "" >>
      [] c[i].level = "subcategory" -> << c[CategoryOf(c, i)].label, c[i].label, "" >>
      [] c[i].level = "term"        -> << c[CategoryOf(c, i)].label,
                                          c[SubcategoryOf(c, i)].label, c[i].label >>

\* (categoryId, subcategoryId, termId) of node i and its ancestors.
IdPath(c, i) ==
    CASE c[i].level = "category"    -> << c[i].id, "", "" >>
      [] c[i].level = "subcategory" -> << c[CategoryOf(c, i)].id, c[i].id, "" >>
      [] c[i].level = "term"        -> << c[CategoryOf(c, i)].id,
                                          c[SubcategoryOf(c, i)].id, c[i].id >>

HierarchyBuilt == lpc # "import_hierarchy"

\* C7 as claimed: a document in which a node's id collides with an earlier
\* node's is rejected, so every hierarchy that was built has unique ids and no
\* lookup entry was overwritten.
C7_CollisionRejected == HierarchyBuilt => UniqueIds(cats)

\* C7 as amended: the build never rejects a collision. The hierarchy is built
\* from every document, with one entry per distinct id, and the entry of an id
\* that several nodes carry is that of the last of them in traversal order:
\* the later node overwrites the earlier one's entry.
C7_LastNodeOverwrites ==
    HierarchyBuilt =>
      /\ DictKeys(vocab_label_hierarchy) = {cats[i].id : i \in 1..Len(cats)}
      /\ DictKeys(vocab_hierarchy) = {cats[i].id : i \in 1..Len(cats)}
      /\ Len(vocab_label_hierarchy) = Cardinality(DictKeys(vocab_label_hierarchy))
      /\ Len(vocab_hierarchy) = Cardinality(DictKeys(vocab_hierarchy))
      /\ \A i \in 1..Len(cats) :
           LET n == Last(NodesWithId(cats, cats[i].id)) IN
             /\ DictGet(vocab_label_hierarchy, cats[i].id, None) = LabelPath(cats, n)
             /\ DictGet(vocab_hierarchy, cats[i].id, None) = IdPath(cats, n)

\* C7 witness: a hierarchy built from a document in which a subcategory has the
\* id of its category, whose entry is now the subcategory's.
C7_Witness ==
    /\ HierarchyBuilt
    /\ Len(cats) = 2
    /\ cats[1].id = cats[2].id
    /\ cats[2].level = "subcategory"
    /\ cats[2].label # ""
    /\ DictGet(vocab_label_hierarchy, cats[1].id, None)
         = << cats[1].label, cats[2].label, "" >>

\* C8 as claimed: lookup gives ("","","") for an id that is not in the
\* hierarchy and, for the id of a node, that node's labels by level:
\* (categoryLabel,"","") for a category, (categoryLabel, subcategoryLabel, "")
\* for a subcategory, all three for a term.
C8_LookupByLevel ==
    lookup.done =>
      /\ NodesWithId(cats, lookup.id) = {} => lookup.labels = << "", "", "" >>
      /\ \A i \in NodesWithId(cats, lookup.id) : lookup.labels = LabelPath(cats, i)

\* C8 as amended: lookup gives ("","","") for an id that is not in the
\* hierarchy and the level-shaped labels of the node for an id that one node
\* carries; for an id that several nodes carry it gives the labels of the last
\* of them in traversal order, whatever the level of the earlier ones.
C8_LookupLastNode ==
    lookup.done =>
      IF NodesWithId(cats, lookup.id) = {}
      THEN lookup.labels = << "", "", "" >>
      ELSE lookup.labels = LabelPath(cats, Last(NodesWithId(cats, lookup.id)))

\* C8 witness: the lookup of a term's id in a category > subcategory > term
\* document with three ids gave the three labels.
C8_Witness ==
    /\ lookup.done
    /\ Len(cats) = 3
    /\ UniqueIds(cats)
    /\ cats[3].level = "term"
    /\ lookup.id = cats[3].id
    /\ lookup.labels = << cats[1].label, cats[2].label, cats[3].label >>
    /\ \A i \in 1..3 : cats[i].label # ""

RECURSIVE LabelsAt(_, _, _)
\* The labels of the nodes of c at the positions in I, from position i on.
LabelsAt(c, I, i) ==
    IF i > Len(c) THEN << >>
    ELSE (IF i \in I THEN << c[i].label >> ELSE << >>) \o LabelsAt(c, I, i + 1)

\* Sequence q without the elements that occurred earlier in it.
FirstOccurrences(q) ==
    LET keep == {i \in 1..Len(q) : \A j \in 1..(i - 1) : q[j] # q[i]}
        F[i \in 0..Len(q)] ==
          IF i = 0 THEN << >>
          ELSE IF i \in keep THEN Append(F[i - 1], q[i]) ELSE F[i - 1]
    IN  F[Len(q)]

HasChildren(c, i) == i < Len(c) /\ c[i + 1].level = "subcategory"

Subcategories(c) == {i \in 1..Len(c) : c[i].level = "subcategory"}
Categories(c) == {i \in 1..Len(c) : c[i].level = "category"}

\* C9 as claimed: the label list holds exactly the labels of the categories
\* without children and of the subcategories, never that of a category with
\* children or of a term, each once, in first-seen traversal order (stated for
\* the documents with unique ids and no empty label).
C9_LeafCategoriesAndSubcategories ==
    (/\ gl.built
     /\ UniqueIds(cats)
     /\ \A i \in 1..Len(cats) : cats[i].label # "") =>
      gl.labels = FirstOccurrences(LabelsAt(cats,
                    {i \in Categories(cats) : ~HasChildren(cats, i)}
                      \cup Subcategories(cats), 1))

\* C9 as amended: for a document with unique ids and no empty subcategory
\* label, the label list holds exactly the labels of all the categories, with
\* or without children, and of the subcategories, each once, in first-seen
\* traversal order with later duplicates dropped.
C9_AllCategoriesAndSubcategories ==
    (/\ gl.built
     /\ UniqueIds(cats)
     /\ \A i \in Subcategories(cats) : cats[i].label # "") =>
      gl.labels = FirstOccurrences(LabelsAt(cats,
                    Categories(cats) \cup Subcategories(cats), 1))

\* C9 witness: a category with two subcategories of one label, all labels
\* non-empty: the list is the category's label, then the shared label once.
C9_Witness ==
    /\ gl.built
    /\ UniqueIds(cats)
    /\ Len(cats) = 3
    /\ cats[2].level = "subcategory"
    /\ cats[3].level = "subcategory"
    /\ cats[1].label # ""
    /\ cats[2].label # ""
    /\ cats[2].label = cats[3].label
    /\ cats[1].label # cats[2].label
    /\ gl.labels = << cats[1].label, cats[2].label >>

\* ---------------------------------------------- claims on the backends' ids

\* C10: every annotation extract_annotations returns, and every annotation a
\* backend returns, has a non-empty vocabulary id: each backend returns one
\* annotation per span whose identifier resolves to a non-empty id and drops
\* the others (unknown label, no candidate, unmapped CUI or CURIE, a mapping to
\* the empty string).
C10_NoEmptyVocabularyId ==
    /\ \A b \in BackendSet :
         \A r \in 1..Len(future[b].result) :
           ~Falsy(future[b].result[r].vocabulary_id)
    /\ \A r \in 1..Len(raw_results) : ~Falsy(raw_results[r].vocabulary_id)
    /\ Returned => \A r \in 1..Len(result) : ~Falsy(result[r].vocabulary_id)
    /\ future["gliner"].state = "FINISHED" /\ behaviour["gliner"] = "ok" =>
         Len(future["gliner"].result) =
           Cardinality({i \in 1..Len(preds["gliner"]) :
                          preds["gliner"][i].label \in {"Imaging", "MRI", "Disease"}})
    /\ future["mesh"].state = "FINISHED" /\ behaviour["mesh"] = "ok" =>
         Len(future["mesh"].result) =
           Cardinality({i \in 1..Len(preds["mesh"]) :
                          /\ preds["mesh"][i].kb_ents # << >>
                          /\ preds["mesh"][i].kb_ents[1][1] \in {"D1", "D2"}})
    /\ future["t2t"].state = "FINISHED" /\ behaviour["t2t"] = "ok" =>
         Len(future["t2t"].result) =
           Cardinality({i \in 1..Len(preds["t2t"]) :
                          preds["t2t"][i].curie \in {"MESH:D1", "MESH:D2"}})

\* C10 witness: mesh's model linked one span to a CUI mapped to the empty
\* string and one to a mapped CUI; the call returned the second alone.
C10_Witness ==
    /\ Returned
    /\ Len(preds["mesh"]) = 2
    /\ preds["mesh"][1].kb_ents = << << "D3", 1 >> >>
    /\ preds["mesh"][2].kb_ents = << << "D1", 2 >> >>
    /\ Len(result) = 1
    /\ result[1].vocabulary_id = "C1.1"
    /\ result[1].score = 2

\* ---------------------------------------------------------------- C11
\* The rows of the table a lookup was made against, and the rows carrying id.
RowsOf(table) == IF table = "mappings" THEN mapping_rows ELSE mesh2onvoc_rows

RowsWithId(rows, id) == {i \in 1..Len(rows) : rows[i].mesh_id = id}

\* What a lookup gives for an id the table does not hold: mesh_map.get gives
\* None, meshid_to_vocab_id.get(.., "") the empty id.
Absent(table) == IF table = "mappings" THEN None ELSE ""

\* C11: for both mapping tables, loaded in row order, resolving an external
\* id gives the vocabulary id of the last row that carries it (a duplicate
\* external id overwrites and is no error), and gives absent for an id that
\* no row carries.
C11_LastRowWins ==
    resolved.done =>
      LET rows == RowsOf(resolved.table)
          I    == RowsWithId(rows, resolved.id)
      IN  resolved.vocab_id =
            IF I = {} THEN Absent(resolved.table)
            ELSE rows[Last(I)].vocabulary_id

\* Two rows of mesh_2_onvoc.tsv carry E1, the earlier with V1, and E1 was
\* resolved to V2, the id of a later row.
C11_Witness ==
    /\ resolved.done /\ resolved.id = "E1" /\ resolved.vocab_id = "V2"
    /\ resolved.table = "mesh_2_onvoc"
    /\ \E i, j \in RowsWithId(mesh2onvoc_rows, "E1") :
         i < j /\ mesh2onvoc_rows[i].vocabulary_id = "V1"

\* ---------------------------------------------------------------- C12
\* A backend's state as its future shows it: Pending until the function has
\* returned (Succeeded) or raised (Failed).
Outcome(b) ==
    IF future[b].state # "FINISHED" THEN "Pending"
    ELSE IF future[b].exception = None THEN "Succeeded" ELSE "Failed"

AllTerminal == \A b \in BackendSet : Outcome(b) # "Pending"

\* The request's phase: Dispatched while a backend is Pending, AllTerminal
\* once none is and the deduplication has not run, Merged and Emitted once
\* the deduplicated list is built and returned (one statement sequence,
\* lines 246-253).
RequestPhase ==
    CASE pc.op = "done" -> "Emitted"
      [] pc.op # "done" /\ AllTerminal -> "AllTerminal"
      [] OTHER -> "Dispatched"

PhaseRank(phase) ==
    CASE phase = "Dispatched" -> 1 [] phase = "AllTerminal" -> 2 [] phase = "Emitted" -> 3

\* C12: a backend that reached a terminal state (Succeeded or Failed; the code
\* has no other) keeps that state and its outcome; the request's phase only
\* advances, one phase at a time, Dispatched -> AllTerminal -> Merged/Emitted;
\* and the deduplication begins and the result is returned only when no
\* backend is Pending.
C12_Step ==
    /\ \A b \in BackendSet :
         Outcome(b) # "Pending" => Outcome(b)' = Outcome(b) /\ future'[b] = future[b]
    /\ PhaseRank(RequestPhase') \in {PhaseRank(RequestPhase), PhaseRank(RequestPhase) + 1}
    /\ pc'.op \in {"dedup", "done"} => AllTerminal'
    /\ pc.op \in {"dedup", "done"} => AllTerminal

C12_StateMachines == [][C12_Step]_vars

\* The request was emitted with one backend Succeeded and another Failed.
C12_Witness ==
    /\ RequestPhase = "Emitted"
    /\ Outcome("gliner") = "Succeeded" /\ Outcome("mesh") = "Failed"
    /\ Outcome("t2t") = "Succeeded"
    /\ result # << >>

\* ---------------------------------------------------------------- C13
\* b was handed to the executor (executor.submit returned its future).
Submitted(b) == future[b].state # "NONE"

\* C13: all three backends are handed to the executor before the main thread
\* waits on any future; the pool has a worker for each of them, so the oldest
\* queued work item can always be started, whatever the siblings do, and a
\* running backend that is to return or raise can do so whatever state its
\* siblings are in (failed, running for ever, not yet begun).
C13_ConcurrentStart ==
    /\ pc.op # "submit" => \A b \in BackendSet : Submitted(b)
    /\ Len(Backends) <= max_workers
    /\ \A b \in BackendSet :
         future[b].state = "PENDING" =>
           /\ b \in Range(work_queue)
           /\ start_ready(Head(work_queue))
    /\ \A b \in BackendSet :
         future[b].state = "RUNNING" /\ behaviour[b] # "hang" => finish_ready(b)

\* gliner never finishes and mesh has failed, yet t2t ran to its end while
\* the main thread waits on gliner.
C13_Witness ==
    /\ behaviour["gliner"] = "hang" /\ future["gliner"].state = "RUNNING"
    /\ Outcome("mesh") = "Failed"
    /\ Outcome("t2t") = "Succeeded" /\ future["t2t"].result # << >>
    /\ pc = [op |-> "join", i |-> 1]

\* ---------------------------------------------------------------- C14
\* C14: under fair scheduling, if every backend eventually reaches a terminal
\* state (returns or raises), extract_annotations eventually returns; and it
\* returns only once every backend is terminal and every join was made: what
\* it deduplicates is the declared-order join of all the backends that
\* returned, never a part of it.
C14_ReturnsOnceAllTerminal ==
    /\ (\A b \in BackendSet : <>(Outcome(b) # "Pending")) => <>Returned
    /\ [](Returned =>
           /\ AllTerminal
           /\ raw_results = DeclaredJoin(Len(Backends))
           /\ result = dedup(DeclaredJoin(Len(Backends))))

\* The call has returned although mesh, the first to terminate, failed and
\* gliner, the first to be joined, terminated last.
C14_Witness ==
    /\ Returned
    /\ finish_order = << "mesh", "t2t", "gliner" >>
    /\ Outcome("mesh") = "Failed"
    /\ Len(result) = 2

\* ---------------------------------------------------------------- C15
\* C15: no step of a backend run or of extract_annotations, in any
\* interleaving, changes vocab_hierarchy, vocab_label_hierarchy or mesh_map
\* (or the data they were loaded from); a step of one backend changes no other
\* backend's future or call count, and what a backend returns is a function of
\* its own model output and of those globals alone.
C15_Step ==
    /\ global_vars' = global_vars
    /\ data_vars' = data_vars
    /\ \A b \in BackendSet :
         future'[b] # future[b] =>
           \A c \in BackendSet \ {b} :
             future'[c] = future[c] /\ attempts'[c] = attempts[c]
    /\ \A b \in BackendSet :
         Outcome(b)' = "Succeeded" => future'[b].result = Outputs(b)

C15_SharedStateReadOnly == [][C15_Step]_vars

\* mesh looked up a CUI that mesh_map does not hold while gliner produced an
\* annotation, both have finished, and the globals are as the import left them.
C15_Witness ==
    /\ Outcome("mesh") = "Succeeded" /\ Outcome("gliner") = "Succeeded"
    /\ \E i \in 1..Len(preds["mesh"]) :
         /\ preds["mesh"][i].kb_ents # << >>
         /\ preds["mesh"][i].kb_ents[1][1] \notin DictKeys(mesh_map)
    /\ future["gliner"].result # << >>
    /\ mesh_map = load_mesh_map(mapping_rows)
    /\ vocab_label_hierarchy = load_vocabulary_hierarchy(cats)[2]

\* ---------------------------------------------------------------- C16
\* f picks positions of scan in increasing order.
Increasing(f) == \A k, l \in DOMAIN f : k < l => f[k] < f[l]

\* C16: the returned list is a subsequence, in order, of the backend result
\* lists concatenated in declared order, and each annotation in it is, field
\* for field, the first annotation of its (text, vocabulary_id) in that
\* concatenation: a dropped duplicate leaves no trace in the one kept.
C16_SurvivorsUntouched ==
    Returned =>
      LET scan == Concat(ResultLists) IN
      \E f \in [1..Len(result) -> 1..Len(scan)] :
        /\ Increasing(f)
        /\ \A k \in 1..Len(result) :
             /\ result[k] = scan[f[k]]
             /\ Earliest(scan, f[k])

\* gliner's and mesh's annotations have one (text, vocabulary_id) and differ
\* in mapper and fields; gliner's is the one returned, and nothing else is.
C16_Witness ==
    /\ Returned
    /\ Len(future["gliner"].result) = 1 /\ Len(future["mesh"].result) = 1
    /\ KeyOf(future["gliner"].result[1]) = KeyOf(future["mesh"].result[1])
    /\ future["gliner"].result[1] # future["mesh"].result[1]
    /\ result = << future["gliner"].result[1] >>

\* ---------------------------------------------------------------- C17
\* The nodes gliner may be driven by (categories and subcategories) that carry
\* the label.
DrivableWithLabel(c, label) ==
    {i \in Categories(c) \cup Subcategories(c) : c[i].label = label}

\* What C17 says of a run on a span with label gl_ann.label: no annotation
\* if no drivable node carries the label, else one annotation, with the id and
\* the label path of the last drivable node carrying it, the label being
\* listed once.
LastNodeOfLabel ==
    LET D == DrivableWithLabel(cats, gl_ann.label) IN
    IF D = {} THEN gl_ann.results = << >>
    ELSE
      /\ Len(gl_ann.results) = 1
      /\ gl_ann.results[1].vocabulary_id = cats[Last(D)].id
      /\ << gl_ann.results[1].category, gl_ann.results[1].subcategory,
            gl_ann.results[1].term >> = LabelPath(cats, Last(D))
      /\ Count(gliner_labels(vocab_label_hierarchy).labels, gl_ann.label) = 1

\* C17 as claimed: for every document, a matched label resolves to the id of
\* the last category or subcategory carrying it in traversal order, and the
\* annotation's category, subcategory and term are those of that node.
C17_LastNodeOfLabelAnyDocument == gl_ann.done => LastNodeOfLabel

\* C17 as amended: the same, for the documents with unique ids and no empty
\* subcategory or term label.
C17_LastNodeOfLabel ==
    (/\ gl_ann.done
     /\ UniqueIds(cats)
     /\ \A i \in 1..Len(cats) : cats[i].level # "category" => cats[i].label # "") =>
      LastNodeOfLabel

\* Two categories with different ids carry the label of the span; the
\* annotation has the id of the second, and the label is listed once.
C17_Witness ==
    /\ gl_ann.done /\ gl_ann.label = "x"
    /\ UniqueIds(cats)
    /\ Len(cats) = 3
    /\ cats[1].level = "category" /\ cats[1].label = "x"
    /\ cats[2].level = "subcategory" /\ cats[2].label = "y"
    /\ cats[3].level = "category" /\ cats[3].label = "x"
    /\ Len(gl_ann.results) = 1
    /\ gl_ann.results[1].vocabulary_id = cats[3].id
    /\ gliner_labels(vocab_label_hierarchy).labels = << "x", "y" >>

====
